---- MODULE Spec2Model ----
(***************************************************************************)
(* A model of yet-another-imgs2pdf (src/main.rs): the command line is      *)
(* parsed, the input paths are resolved, every path is handed to           *)
(* PDFMerger::append_image_page, and the document is saved once.           *)
(*                                                                         *)
(* Strings are sequences of one-character strings, so that the numeric     *)
(* parsers and the path ordering are computed character by character.      *)
(* Floating-point values are exact fractions [num, den]; a zero            *)
(* denominator stands for the infinities and NaN a division by 0.0 gives.  *)
(***************************************************************************)
EXTENDS Integers, Sequences, FiniteSets

VARIABLES
    args,       \* clap's ArgMatches: what was given on the command line
    fs,         \* the file behind each path: an image's pixel size, or not an image
    out_file,   \* the file at out_path
    pc,         \* main's position
    dpi,        \* let dpi    (main.rs:127)
    width,      \* let width  (main.rs:134)
    height,     \* let height (main.rs:141)
    imgs_iter,  \* let mut imgs_iter (main.rs:153)
    i,          \* the loop's enumerate() index (main.rs:174)
    img,        \* append_image_page's local img (main.rs:35)
    pdf,        \* PDFMerger.pdf: the document's pages, in order
    p_live,     \* whether the merger p still owns the document (save takes self)
    stdout,     \* lines printed to standard output
    stderr,     \* lines printed to standard error
    exit_code,  \* the process's exit status, meaningful when pc = "done"
    io          \* the file-system operations performed so far, in order

vars == <<args, fs, out_file, pc, dpi, width, height, imgs_iter, i, img, pdf,
          p_live, stdout, stderr, exit_code, io>>

(***************************************************************************)
(* Bounds and input alphabets                                              *)
(***************************************************************************)
MaxImgs == 3

Digits == <<"0", "1", "2", "3", "4", "5", "6", "7", "8", "9">>

IsDigit(c) == \E k \in 1..Len(Digits) : Digits[k] = c

DigitVal(c) == (CHOOSE k \in 1..Len(Digits) : Digits[k] = c) - 1

\* The digits of u32::MAX, 4294967295.
U32MaxDigits == <<"4", "2", "9", "4", "9", "6", "7", "2", "9", "5">>

\* Values the user may give for --dpi: well-formed positive, zero and
\* negative numbers, and strings that are no float at all.
DpiArgs == { <<"2", ".", "5">>, <<"0">>, <<"-", "1">>,
             <<"x">>, <<>>, <<".">> }

\* Values the user may give for --scale-width: two that parse, an empty
\* string and a negative number.
WidthArgs == { <<"4">>, <<"0", "6">>, <<>>, <<"-", "1">> }

\* Values the user may give for --scale-height: one that parses, a fraction
\* and u32::MAX + 1.
HeightArgs == { <<"+", "6">>, <<"2", ".", "5">>,
                <<"4", "2", "9", "4", "9", "6", "7", "2", "9", "6">> }

\* Path strings, and the byte order of the characters they are made of.
Alphabet == <<"a", "b">>

Paths == { <<"a">>, <<"a", "b">>, <<"b">> }

\* What a file can hold: the pixel size of a decodable image, or no image.
Corrupt == [ok |-> FALSE, w |-> 0, h |-> 0]

Contents == { Corrupt, [ok |-> TRUE, w |-> 8, h |-> 6], [ok |-> TRUE, w |-> 3, h |-> 9] }

(***************************************************************************)
(* str::parse::<u32> and str::parse::<f64>                                 *)
(***************************************************************************)
RECURSIVE DigitsValue(_)
DigitsValue(ds) ==
    IF ds = <<>> THEN 0
    ELSE 10 * DigitsValue(SubSeq(ds, 1, Len(ds) - 1)) + DigitVal(ds[Len(ds)])

RECURSIVE StripZeros(_)
StripZeros(ds) ==
    IF ds # <<>> /\ ds[1] = "0" THEN StripZeros(Tail(ds)) ELSE ds

\* ds > U32MaxDigits for two digit strings of the same length.
ExceedsU32Max(ds) ==
    \E k \in 1..Len(ds) :
        /\ \A j \in 1..(k - 1) : ds[j] = U32MaxDigits[j]
        /\ DigitVal(ds[k]) > DigitVal(U32MaxDigits[k])

ParseErr == [ok |-> FALSE, val |-> 0]

\* u32::from_str: an optional '+', then one or more decimal digits whose
\* value fits 32 bits; anything else (empty, '-', '.', letters, overflow)
\* is an error.
ParseU32(s) ==
    LET body == IF s # <<>> /\ s[1] = "+" THEN Tail(s) ELSE s
        sig  == StripZeros(body)
    IN  IF body = <<>> \/ \E k \in 1..Len(body) : ~IsDigit(body[k])
        THEN ParseErr
        ELSE IF \/ Len(sig) > Len(U32MaxDigits)
                \/ Len(sig) = Len(U32MaxDigits) /\ ExceedsU32Max(sig)
        THEN ParseErr
        ELSE [ok |-> TRUE, val |-> DigitsValue(sig)]

RECURSIVE Pow10(_)
Pow10(n) == IF n = 0 THEN 1 ELSE 10 * Pow10(n - 1)

FloatErr == [ok |-> FALSE, val |-> [num |-> 0, den |-> 1]]

\* f64::from_str on strings of digits, signs, '.' and letters that spell no
\* float: Sign? ( Digit+ | Digit+ '.' Digit* | Digit* '.' Digit+ ).
ParseF64(s) ==
    LET signed == s # <<>> /\ s[1] \in {"+", "-"}
        body   == IF signed THEN Tail(s) ELSE s
        dots   == { k \in 1..Len(body) : body[k] = "." }
        ds     == SelectSeq(body, IsDigit)
        frac   == IF dots = {} THEN 0
                  ELSE Len(body) - (CHOOSE k \in dots : TRUE)
        mag    == DigitsValue(ds)
    IN  IF \/ Cardinality(dots) > 1
           \/ ds = <<>>
           \/ \E k \in 1..Len(body) : ~IsDigit(body[k]) /\ body[k] # "."
        THEN FloatErr
        ELSE [ok  |-> TRUE,
              val |-> [num |-> IF signed /\ s[1] = "-" THEN 0 - mag ELSE mag,
                       den |-> Pow10(frac)]]

(***************************************************************************)
(* f64 arithmetic, exact                                                   *)
(***************************************************************************)
ToF64(n) == [num |-> n, den |-> 1]

FMul(a, b) == [num |-> a.num * b.num, den |-> a.den * b.den]

FDiv(a, b) == [num |-> a.num * b.den, den |-> a.den * b.num]

\* a = b as numbers, for fractions with non-zero denominators.
FEq(a, b) == a.num * b.den = b.num * a.den

\* a > 0, for a fraction with a positive denominator (what ParseF64 returns).
FPositive(a) == a.num > 0

\* const INCH_PER_MM: f64 = 25.4
INCH_PER_MM == [num |-> 254, den |-> 10]

Mm(x) == x

(***************************************************************************)
(* clap                                                                    *)
(***************************************************************************)
None == <<>>

Some(v) == <<v>>

is_some(opt) == opt # None

unwrap(opt) == opt[1]

\* ArgMatches::value_of: the first value stored for the argument. dpi,
\* scale-width and scale-height take a value (and have a default, so one is
\* always stored). auto-sort is declared takes_value(false): giving the flag
\* records an occurrence and stores no value, so value_of is None whether or
\* not the flag was given (is_present is what reports a flag).
value_of(id) ==
    CASE id = "dpi"          -> Some(args.dpi)
      [] id = "scale-width"  -> Some(args.scale_width)
      [] id = "scale-height" -> Some(args.scale_height)
      [] id = "auto-sort"    -> None

(***************************************************************************)
(* Vec<PathBuf>::sort                                                      *)
(***************************************************************************)
Ord(c) == CHOOSE k \in 1..Len(Alphabet) : Alphabet[k] = c

\* PathBuf's Ord on single-component paths: lexicographic by character.
PathLess(p, q) ==
    \E k \in 1..(Len(p) + 1) :
        /\ k <= Len(q)
        /\ \A j \in 1..(k - 1) : p[j] = q[j]
        /\ k > Len(p) \/ Ord(p[k]) < Ord(q[k])

RECURSIVE Insert(_, _)
Insert(x, s) ==
    IF s = <<>> THEN <<x>>
    ELSE IF PathLess(x, s[1]) THEN <<x>> \o s
    ELSE <<s[1]>> \o Insert(x, Tail(s))

RECURSIVE SortPaths(_)
SortPaths(s) ==
    IF s = <<>> THEN <<>>
    ELSE Insert(s[Len(s)], SortPaths(SubSeq(s, 1, Len(s) - 1)))

\* if matches.value_of("auto-sort").is_some() { imgs_iter.sort(); }
AutoSort(v) == IF is_some(value_of("auto-sort")) THEN SortPaths(v) ELSE v

(***************************************************************************)
(* image_crate: open(..)?.resize(w, h, Nearest), and the page geometry     *)
(***************************************************************************)
Max(a, b) == IF a >= b THEN a ELSE b

\* round() of the non-negative quotient n / d: half rounds away from zero.
RoundDiv(n, d) == (2 * n + d) \div (2 * d)

\* DynamicImage::resize: scale by the smaller of nwidth/w and nheight/h, so
\* that the aspect ratio is kept and the result fits the box; each side is
\* rounded and is at least 1.
Resize(im, nwidth, nheight) ==
    IF nwidth * im.h <= nheight * im.w
    THEN [w |-> Max(RoundDiv(im.w * nwidth, im.w), 1),
          h |-> Max(RoundDiv(im.h * nwidth, im.w), 1)]
    ELSE [w |-> Max(RoundDiv(im.w * nheight, im.h), 1),
          h |-> Max(RoundDiv(im.h * nheight, im.h), 1)]

\* let page_w = Mm((w as f64 * INCH_PER_MM) / dpi);
PageW(im, d) == Mm(FDiv(FMul(ToF64(im.w), INCH_PER_MM), d))

\* PageH as a copy-paste slip would have it: the height from the width.
PageH_width(im, d) == Mm(FDiv(FMul(ToF64(im.w), INCH_PER_MM), d))

\* let page_h = Mm((h as f64 * INCH_PER_MM) / dpi);
PageH(im, d) == Mm(FDiv(FMul(ToF64(im.h), INCH_PER_MM), d))

(***************************************************************************)
(* State of the run                                                        *)
(***************************************************************************)
Absent == [exists |-> FALSE, kind |-> "none", pages |-> <<>>, complete |-> FALSE]

\* A file some earlier program left at out_path.
OldFile == [exists |-> TRUE, kind |-> "old", pages |-> <<>>, complete |-> TRUE]

NoImg == [w |-> 0, h |-> 0]

NoPath == <<>>

\* A line of standard output.
Line(kind, path, k, n) == [kind |-> kind, path |-> path, i |-> k, n |-> n]

\* A line of standard error: what went wrong, and with which argument or step.
Diag(kind, what) == [kind |-> kind, what |-> what]

\* A file-system operation: which, on what path, and whether it succeeded.
Op(op, path, ok) == [op |-> op, path |-> path, ok |-> ok]

\* exit(1), and main returning Err(..): the process ends with status 1.
Exit(code) == pc' = "done" /\ exit_code' = code

Init ==
    /\ args \in [dpi : DpiArgs, scale_width : WidthArgs, scale_height : HeightArgs,
                 auto_sort : BOOLEAN, input : {"imgs", "dir"}]
    /\ fs \in [Paths -> Contents]
    /\ out_file \in {Absent, OldFile}
    /\ pc = "parse_dpi"
    /\ dpi = ToF64(0)
    /\ width = 0
    /\ height = 0
    /\ imgs_iter = <<>>
    /\ i = 0
    /\ img = NoImg
    /\ pdf = <<>>
    /\ p_live = FALSE
    /\ stdout = <<>>
    /\ stderr = <<>>
    /\ exit_code = 0
    /\ io = <<>>

(***************************************************************************)
(* main.rs:127-147: the numeric arguments                                  *)
(***************************************************************************)
ParseDpi ==
    /\ pc = "parse_dpi"
    /\ LET r == ParseF64(unwrap(value_of("dpi")))
       IN  IF r.ok
           THEN /\ dpi' = r.val
                /\ pc' = "parse_width"
                /\ UNCHANGED <<stderr, exit_code>>
           ELSE /\ stderr' = Append(stderr, Diag("could not be parsed", "dpi"))
                /\ Exit(1)
                /\ UNCHANGED dpi
    /\ UNCHANGED <<args, fs, out_file, width, height, imgs_iter, i, img, pdf,
                   p_live, stdout, io>>

ParseWidth ==
    /\ pc = "parse_width"
    /\ LET r == ParseU32(unwrap(value_of("scale-width")))
       IN  IF r.ok
           THEN /\ width' = r.val
                /\ pc' = "parse_height"
                /\ UNCHANGED <<stderr, exit_code>>
           ELSE /\ stderr' = Append(stderr, Diag("could not be parsed", "scale-width"))
                /\ Exit(1)
                /\ UNCHANGED width
    /\ UNCHANGED <<args, fs, out_file, dpi, height, imgs_iter, i, img, pdf,
                   p_live, stdout, io>>

\* ParseHeight as it would be if the Err arm fell back to a value instead of
\* exiting.
ParseHeight_lenient ==
    /\ pc = "parse_height"
    /\ LET r == ParseU32(unwrap(value_of("scale-height")))
       IN  /\ height' = r.val
           /\ pc' = "resolve"
           /\ IF r.ok THEN UNCHANGED stderr
              ELSE stderr' = Append(stderr, Diag("could not be parsed", "scale-height"))
    /\ UNCHANGED <<args, fs, out_file, dpi, width, imgs_iter, i, img, pdf,
                   p_live, stdout, exit_code, io>>

ParseHeight ==
    /\ pc = "parse_height"
    /\ LET r == ParseU32(unwrap(value_of("scale-height")))
       IN  IF r.ok
           THEN /\ height' = r.val
                /\ pc' = "resolve"
                /\ UNCHANGED <<stderr, exit_code>>
           ELSE /\ stderr' = Append(stderr, Diag("could not be parsed", "scale-height"))
                /\ Exit(1)
                /\ UNCHANGED height
    /\ UNCHANGED <<args, fs, out_file, dpi, width, imgs_iter, i, img, pdf,
                   p_live, stdout, io>>

(***************************************************************************)
(* main.rs:152-170: the merger and the resolved input sequence             *)
(***************************************************************************)
SeqsUpTo(S, n) == UNION { [1..k -> S] : k \in 0..n }

\* What read_dir yields: each entry of the directory once, in the order the
\* file system returns them, each either Ok(entry) or Err.
DirEntries == [ok : BOOLEAN, path : Paths]

Listings ==
    { l \in SeqsUpTo(DirEntries, MaxImgs) :
        \A j, k \in 1..Len(l) : j # k => l[j].path # l[k].path }

\* .filter_map(|rd| rd.map(|de| de.path()).ok())
RECURSIVE filter_map_ok(_)
filter_map_ok(l) ==
    IF l = <<>> THEN <<>>
    ELSE (IF l[1].ok THEN <<l[1].path>> ELSE <<>>) \o filter_map_ok(Tail(l))

\* PDFMerger::new, then if let Some(imgs) = matches.values_of("imgs")
ResolveImgs ==
    /\ pc = "resolve"
    /\ args.input = "imgs"
    /\ \E imgs \in SeqsUpTo(Paths, MaxImgs) \ {<<>>} :
           imgs_iter' = AutoSort(imgs)
    /\ pdf' = <<>>
    /\ p_live' = TRUE
    /\ pc' = "loop"
    /\ UNCHANGED <<args, fs, out_file, dpi, width, height, i, img, stdout,
                   stderr, exit_code, io>>

\* PDFMerger::new, then else if let Some(f) = matches.value_of("dir"), Ok(rds)
ResolveDir ==
    /\ pc = "resolve"
    /\ args.input = "dir"
    /\ \E rds \in Listings :
           imgs_iter' = AutoSort(filter_map_ok(rds))
    /\ io' = Append(io, Op("read_dir", NoPath, TRUE))
    /\ pdf' = <<>>
    /\ p_live' = TRUE
    /\ pc' = "loop"
    /\ UNCHANGED <<args, fs, out_file, dpi, width, height, i, img, stdout,
                   stderr, exit_code>>

\* read_dir's Err(e): eprintln!("Could not read <dir> ..."); exit(1)
ResolveDirErr ==
    /\ pc = "resolve"
    /\ args.input = "dir"
    /\ io' = Append(io, Op("read_dir", NoPath, FALSE))
    /\ stderr' = Append(stderr, Diag("could not read", "dir"))
    /\ pdf' = <<>>
    /\ p_live' = TRUE
    /\ Exit(1)
    /\ UNCHANGED <<args, fs, out_file, dpi, width, height, imgs_iter, i, img,
                   stdout>>

(***************************************************************************)
(* main.rs:174-180 and PDFMerger::append_image_page (main.rs:28-55)        *)
(***************************************************************************)
\* HasNext with an off-by-one bound: the last path is never visited.
HasNext_short == i + 1 < Len(imgs_iter)

\* The loop has a next element: imgs_iter[i + 1] is the path n.
HasNext == i < Len(imgs_iter)

\* AppendErr in the strict mode: the first failure ends the run.
AppendErr_strict ==
    /\ pc = "loop"
    /\ HasNext
    /\ ~fs[imgs_iter[i + 1]].ok
    /\ io' = Append(io, Op("open", imgs_iter[i + 1], FALSE))
    /\ stderr' = Append(stderr, Diag("Error", "open"))
    /\ Exit(1)
    /\ UNCHANGED <<args, fs, out_file, dpi, width, height, imgs_iter, i, img,
                   pdf, p_live, stdout>>

\* AppendErr as it would be if append_image_page created the page before it
\* opened the image: a failure leaves an empty page behind.
AppendErr_page_first ==
    /\ pc = "loop"
    /\ HasNext
    /\ ~fs[imgs_iter[i + 1]].ok
    /\ io' = Append(io, Op("open", imgs_iter[i + 1], FALSE))
    /\ pdf' = Append(pdf, [w |-> ToF64(0), h |-> ToF64(0), images |-> <<>>,
                           from |-> i + 1])
    /\ stdout' = stdout \o << Line("skipping", imgs_iter[i + 1], 0, 0),
                              Line("processing", NoPath, i, Len(imgs_iter)) >>
    /\ i' = i + 1
    /\ UNCHANGED <<args, fs, out_file, pc, dpi, width, height, imgs_iter, img,
                   p_live, stderr, exit_code>>

\* image_crate::open(image)? fails: append_image_page returns the error, the
\* loop prints the skip line and the progress line and goes on.
AppendErr ==
    /\ pc = "loop"
    /\ HasNext
    /\ ~fs[imgs_iter[i + 1]].ok
    /\ io' = Append(io, Op("open", imgs_iter[i + 1], FALSE))
    /\ stdout' = stdout \o << Line("skipping", imgs_iter[i + 1], 0, 0),
                              Line("processing", NoPath, i, Len(imgs_iter)) >>
    /\ i' = i + 1
    /\ UNCHANGED <<args, fs, out_file, pc, dpi, width, height, imgs_iter, img,
                   pdf, p_live, stderr, exit_code>>

\* image_crate::open(image)?.resize(wh.0, wh.1, Nearest) succeeds.
AppendOpen ==
    /\ pc = "loop"
    /\ HasNext
    /\ fs[imgs_iter[i + 1]].ok
    /\ io' = Append(io, Op("open", imgs_iter[i + 1], TRUE))
    /\ img' = Resize(fs[imgs_iter[i + 1]], width, height)
    /\ pc' = "add_page"
    /\ UNCHANGED <<args, fs, out_file, dpi, width, height, imgs_iter, i, pdf,
                   p_live, stdout, stderr, exit_code>>

\* A page of the document: its size, its layer's images, and the position in
\* imgs_iter of the path it was made for.
Page(w, h, k) == [w |-> w, h |-> h, images |-> <<>>, from |-> k]

\* add_page putting the new page first.
add_page_front(pages, page) == <<page>> \o pages

\* self.pdf.add_page(page_w, page_h, layer_name): the new page goes last.
add_page(pages, page) == Append(pages, page)

AddPage ==
    /\ pc = "add_page"
    /\ pdf' = add_page(pdf, Page(PageW(img, dpi), PageH(img, dpi), i + 1))
    /\ pc' = "add_to_layer"
    /\ UNCHANGED <<args, fs, out_file, dpi, width, height, imgs_iter, i, img,
                   p_live, stdout, stderr, exit_code, io>>

\* Image::from_dynamic_image(&img).add_to_layer(layer, ImageTransform { dpi }),
\* on the layer of the page add_page returned; Ok(()), then the progress line.
AddToLayer ==
    /\ pc = "add_to_layer"
    /\ pdf' = [pdf EXCEPT ![Len(pdf)].images =
                   Append(@, [w |-> img.w, h |-> img.h, dpi |-> dpi])]
    /\ img' = NoImg
    /\ stdout' = Append(stdout, Line("processing", NoPath, i, Len(imgs_iter)))
    /\ i' = i + 1
    /\ pc' = "loop"
    /\ UNCHANGED <<args, fs, out_file, dpi, width, height, imgs_iter, p_live,
                   stderr, exit_code, io>>

(***************************************************************************)
(* main.rs:181-188 and PDFMerger::save (main.rs:57-59)                     *)
(***************************************************************************)
\* File::create(&out_path) succeeds: the file exists and is empty.
CreateOk ==
    /\ pc = "loop"
    /\ ~HasNext
    /\ io' = Append(io, Op("create", NoPath, TRUE))
    /\ out_file' = [exists |-> TRUE, kind |-> "pdf", pages |-> <<>>, complete |-> FALSE]
    /\ pc' = "save"
    /\ UNCHANGED <<args, fs, dpi, width, height, imgs_iter, i, img, pdf, p_live,
                   stdout, stderr, exit_code>>

\* CreateErr as it would be if main refused to write a document with no pages:
\* it gives up before File::create.
CreateErr_no_pages ==
    /\ pc = "loop"
    /\ ~HasNext
    /\ pdf = <<>>
    /\ stderr' = Append(stderr, Diag("Error", "no pages"))
    /\ Exit(1)
    /\ UNCHANGED <<args, fs, out_file, dpi, width, height, imgs_iter, i, img,
                   pdf, p_live, stdout, io>>

\* File::create(&out_path)? fails: main returns the error.
CreateErr ==
    /\ pc = "loop"
    /\ ~HasNext
    /\ io' = Append(io, Op("create", NoPath, FALSE))
    /\ stderr' = Append(stderr, Diag("Error", "create"))
    /\ Exit(1)
    /\ UNCHANGED <<args, fs, out_file, dpi, width, height, imgs_iter, i, img,
                   pdf, p_live, stdout>>

\* p.save(..) succeeds: every page is in the file; the success line; Ok(()).
SaveOk ==
    /\ pc = "save"
    /\ io' = Append(io, Op("write", NoPath, TRUE))
    /\ out_file' = [out_file EXCEPT !.pages = pdf, !.complete = TRUE]
    /\ p_live' = FALSE
    /\ stdout' = Append(stdout, Line("successfully created", NoPath, 0, 0))
    /\ Exit(0)
    /\ UNCHANGED <<args, fs, dpi, width, height, imgs_iter, i, img, pdf, stderr>>

\* p.save(..)? fails part-way (disk full, ...): the BufWriter has passed some
\* prefix of the document to the file; main returns the error.
SaveErr ==
    /\ pc = "save"
    /\ io' = Append(io, Op("write", NoPath, FALSE))
    /\ \E n \in 0..Len(pdf) :
           out_file' = [out_file EXCEPT !.pages = SubSeq(pdf, 1, n)]
    /\ p_live' = FALSE
    /\ stderr' = Append(stderr, Diag("Error", "save"))
    /\ Exit(1)
    /\ UNCHANGED <<args, fs, dpi, width, height, imgs_iter, i, img, pdf, stdout>>

Next ==
    \/ ParseDpi
    \/ ParseWidth
    \/ ParseHeight
    \/ ResolveImgs
    \/ ResolveDir
    \/ ResolveDirErr
    \/ AppendErr
    \/ AppendOpen
    \/ AddPage
    \/ AddToLayer
    \/ CreateOk
    \/ CreateErr
    \/ SaveOk
    \/ SaveErr

Spec == Init /\ [][Next]_vars

(***************************************************************************)
(* Vocabulary of the properties                                            *)
(***************************************************************************)
Positions == 1..Len(imgs_iter)

Decodes(k) == fs[imgs_iter[k]].ok

\* The positions among the first n of imgs_iter whose file decodes, ascending.
RECURSIVE SuccessesUpTo(_)
SuccessesUpTo(n) ==
    IF n = 0 THEN <<>>
    ELSE SuccessesUpTo(n - 1) \o (IF Decodes(n) THEN <<n>> ELSE <<>>)

Froms == [k \in 1..Len(pdf) |-> pdf[k].from]

Count(op) == Cardinality({ k \in 1..Len(io) : io[k].op = op })

Opened == SelectSeq(io, LAMBDA e : e.op = "open")

\* Every path of imgs_iter has been handed to image_crate::open, in order.
AllAttempted ==
    /\ i = Len(imgs_iter)
    /\ Len(Opened) = Len(imgs_iter)
    /\ \A k \in Positions : Opened[k].path = imgs_iter[k]

\* Creating and writing the output file did not fail.
OutputIoOk == \A k \in 1..Len(io) : io[k].op \in {"create", "write"} => io[k].ok

OutputIoFailed == \E k \in 1..Len(io) : io[k].op \in {"create", "write"} /\ ~io[k].ok

DpiParse == ParseF64(args.dpi)

WidthParse == ParseU32(args.scale_width)

HeightParse == ParseU32(args.scale_height)

Unparsable ==
    { a \in {"dpi", "scale-width", "scale-height"} :
        \/ a = "dpi" /\ ~DpiParse.ok
        \/ a = "scale-width" /\ ~WidthParse.ok
        \/ a = "scale-height" /\ ~HeightParse.ok }

\* The arguments parsed and, for --dir, the directory could be listed.
Resolved ==
    /\ Unparsable = {}
    /\ pc \notin {"parse_dpi", "parse_width", "parse_height", "resolve"}
    /\ \A k \in 1..Len(io) : io[k].op = "read_dir" => io[k].ok

Saved == out_file.kind = "pdf" /\ out_file.complete /\ out_file.pages = pdf

SuccessLine == Line("successfully created", NoPath, 0, 0)

Printed(line) == \E k \in 1..Len(stdout) : stdout[k] = line

IsSorted(s) == \A j, k \in 1..Len(s) : j < k => ~PathLess(s[k], s[j])

(***************************************************************************)
(* C1: whenever control is at the head of the loop, at the save step or    *)
(* past it, the document's pages are exactly the images among the first i  *)
(* paths that decoded, in the order of imgs_iter, each page holding the    *)
(* resized image of its own path; at the save step i is the whole          *)
(* sequence, so the page count is the number of successes and no page is   *)
(* reordered, duplicated or dropped.                                       *)
(***************************************************************************)
C1_PagesAreSuccessesInOrder ==
    pc \in {"loop", "save", "done"} =>
        /\ Froms = SuccessesUpTo(i)
        /\ \A k \in 1..Len(pdf) :
               LET px == Resize(fs[imgs_iter[pdf[k].from]], width, height)
               IN  pdf[k].images = << [w |-> px.w, h |-> px.h, dpi |-> dpi] >>
        /\ pc = "save" => i = Len(imgs_iter) /\ Len(pdf) = Len(SuccessesUpTo(Len(imgs_iter)))

\* At the save step after three paths of which the second did not decode and
\* the first and third are different images.
C1_Witness ==
    /\ pc = "save"
    /\ Len(imgs_iter) = 3
    /\ Decodes(1) /\ ~Decodes(2) /\ Decodes(3)
    /\ fs[imgs_iter[1]] # fs[imgs_iter[3]]
    /\ Len(pdf) = 2

(***************************************************************************)
(* C2: tolerant failure policy. For every position k whose file has been   *)
(* opened and did not decode: the skip line naming that path has been      *)
(* printed and no page was made for it; and once the run is over every     *)
(* path, those after k included, has been attempted, File::create has been *)
(* called, and, the output file being creatable and writable, the document *)
(* is saved and the exit status is success.                                *)
(***************************************************************************)
C2_TolerantSkip ==
    \A k \in Positions :
        (k <= Len(Opened) /\ ~Opened[k].ok) =>
            /\ Printed(Line("skipping", imgs_iter[k], 0, 0))
            /\ \A n \in 1..Len(pdf) : pdf[n].from # k
            /\ pc = "done" =>
                   /\ AllAttempted
                   /\ Count("create") = 1
                   /\ OutputIoOk => Saved /\ exit_code = 0

\* The scenario of the specification: three paths, the second corrupt, the
\* run over with two pages saved.
C2_Witness ==
    /\ pc = "done"
    /\ Len(imgs_iter) = 3
    /\ Decodes(1) /\ ~Decodes(2) /\ Decodes(3)
    /\ Saved
    /\ Len(out_file.pages) = 2
    /\ exit_code = 0

(***************************************************************************)
(* C3: a DPI that parses to zero or to a negative number makes the run     *)
(* fail before any image is processed: no image is opened, the output file *)
(* is never created or written, and the exit status is non-zero.           *)
(***************************************************************************)
C3_NonPositiveDpiRejected ==
    (DpiParse.ok /\ ~FPositive(DpiParse.val)) =>
        /\ Count("open") = 0
        /\ Count("create") = 0
        /\ out_file.kind # "pdf"
        /\ pc = "done" => exit_code # 0

(***************************************************************************)
(* C4: if the auto-sort flag is given, the sequence the loop iterates over *)
(* is sorted in lexicographic path order.                                  *)
(***************************************************************************)
C4_AutoSortSorts ==
    (args.auto_sort /\ pc \in {"loop", "add_page", "add_to_layer", "save"}) =>
        IsSorted(imgs_iter)

(***************************************************************************)
(* C5: if creating the output file or serializing the document fails, the  *)
(* run ends with a non-zero status and no success line, and the file at    *)
(* the output path is as it was before the run: not truncated, not empty,  *)
(* not half-written.                                                       *)
(***************************************************************************)
C5_FailedSaveLeavesNoPartialFile ==
    (pc = "done" /\ OutputIoFailed) =>
        /\ exit_code # 0
        /\ ~Printed(SuccessLine)
        /\ out_file \in {Absent, OldFile}

(***************************************************************************)
(* C6: if dpi, scale-width or scale-height cannot be parsed, the program   *)
(* never gets past the parsing: no directory is listed, no image opened,   *)
(* no page appended, the output file not created; and it ends with a       *)
(* non-zero status and one line on standard error, naming an argument that *)
(* could not be parsed.                                                    *)
(***************************************************************************)
C6_UnparsableArgumentExitsBeforeIo ==
    Unparsable # {} =>
        /\ pc \in {"parse_dpi", "parse_width", "parse_height", "done"}
        /\ io = <<>>
        /\ pdf = <<>>
        /\ ~p_live
        /\ out_file \in {Absent, OldFile}
        /\ pc = "done" =>
               /\ exit_code = 1
               /\ Len(stderr) = 1
               /\ stderr[1].kind = "could not be parsed"
               /\ stderr[1].what \in Unparsable
               /\ stdout = <<>>

\* The run is over, the last of the three arguments being the only bad one
\* (a scale-height that overflows 32 bits).
C6_Witness ==
    /\ pc = "done"
    /\ Unparsable = {"scale-height"}
    /\ Len(args.scale_height) = Len(U32MaxDigits)
    /\ stderr = << Diag("could not be parsed", "scale-height") >>

(***************************************************************************)
(* C7: with a DPI d > 0, every page of the document measures w*25.4/d by   *)
(* h*25.4/d millimetres, (w, h) being the pixel size of the resized image  *)
(* of the page's path: the same constant and the same DPI on both axes.    *)
(***************************************************************************)
C7_PageSizeFromResizedPixels ==
    FPositive(dpi) =>
        \A k \in 1..Len(pdf) :
            LET px == Resize(fs[imgs_iter[pdf[k].from]], width, height)
            IN  /\ pdf[k].w.den # 0
                /\ pdf[k].h.den # 0
                /\ pdf[k].w.num * (10 * dpi.num) = (px.w * 254 * dpi.den) * pdf[k].w.den
                /\ pdf[k].h.num * (10 * dpi.num) = (px.h * 254 * dpi.den) * pdf[k].h.den

\* A finished page, with a positive DPI, for an image that is not square and
\* whose size the resize changed.
C7_Witness ==
    /\ FPositive(dpi)
    /\ \E k \in 1..Len(pdf) :
           /\ Len(pdf[k].images) = 1
           /\ pdf[k].images[1].w # pdf[k].images[1].h
           /\ pdf[k].images[1].w # fs[imgs_iter[pdf[k].from]].w

(***************************************************************************)
(* C8: the document's lifecycle. The output file is created at most once   *)
(* and written at most once; it is not touched before the loop has ended;  *)
(* it is created only after every resolved path has been attempted; once   *)
(* written the run is over and the merger consumed, so that no page is     *)
(* appended after the save; and a run that ends in success has written the *)
(* document exactly once, all its pages in the file.                       *)
(***************************************************************************)
C8_SavedOnceAfterTheLoop ==
    /\ Count("create") <= 1
    /\ Count("write") <= 1
    /\ Count("write") <= Count("create")
    /\ Count("create") = 0 => out_file \in {Absent, OldFile}
    /\ Count("create") = 1 => AllAttempted /\ io[Len(io) - Count("write")].op = "create"
    /\ Count("write") = 1 => pc = "done" /\ ~p_live /\ io[Len(io)].op = "write"
    /\ (pc = "done" /\ exit_code = 0) => Count("write") = 1 /\ Saved

\* A successful run over three paths, two of them pages of the saved file.
C8_Witness ==
    /\ pc = "done"
    /\ exit_code = 0
    /\ Len(imgs_iter) = 3
    /\ Len(out_file.pages) = 2
    /\ Count("write") = 1

(***************************************************************************)
(* C9: no partially constructed page. Outside append_image_page every page *)
(* of the document holds exactly one image, and inside it only the page    *)
(* just created is still without its image; a page is added only by a call *)
(* whose image has been decoded and resized; and a call that returns an    *)
(* error leaves the page sequence as it was.                               *)
(***************************************************************************)
C9_PagesComplete ==
    /\ \A k \in 1..Len(pdf) :
           Len(pdf[k].images) = (IF pc = "add_to_layer" /\ k = Len(pdf) THEN 0 ELSE 1)

C9_PageAddedAfterDecode ==
    Len(pdf') > Len(pdf) =>
        /\ pc = "add_page"
        /\ Decodes(i + 1)
        /\ img = Resize(fs[imgs_iter[i + 1]], width, height)
        /\ Len(pdf') = Len(pdf) + 1
        /\ SubSeq(pdf', 1, Len(pdf)) = pdf

C9_ErrorLeavesPages ==
    (pc = "loop" /\ HasNext /\ ~Decodes(i + 1)) => pdf' = pdf

\* C9: in every reachable state the pages are complete as described above,
\* and every step adds a page only after a successful decode and resize and
\* leaves the pages alone when the call returns an error.
C9_NoPartialPage ==
    /\ []C9_PagesComplete
    /\ [][C9_PageAddedAfterDecode /\ C9_ErrorLeavesPages]_vars

\* Back at the head of the loop with a page made and a failure behind: the
\* first path did not decode, the second did.
C9_Witness ==
    /\ pc = "loop"
    /\ i = 2
    /\ ~Decodes(1) /\ Decodes(2)
    /\ Len(pdf) = 1
    /\ Len(pdf[1].images) = 1

(***************************************************************************)
(* C10: when no path of the resolved sequence decodes (an empty directory, *)
(* or every path failing), the run does not stop short of the save step:   *)
(* it goes on until it has tried to create the output file, and, the file  *)
(* being creatable and writable, it ends with the file holding a complete  *)
(* document of zero pages, the success line printed and status 0.          *)
(***************************************************************************)
C10_NoValidImageStillSaves ==
    (Resolved /\ \A k \in Positions : ~Decodes(k)) =>
        /\ pc # "done" => ENABLED Next
        /\ pc = "done" =>
               /\ Count("create") = 1
               /\ OutputIoOk =>
                      /\ Saved
                      /\ out_file.pages = <<>>
                      /\ Printed(SuccessLine)
                      /\ exit_code = 0

\* An empty directory, and three paths none of which decodes: the run is
\* over with an empty document saved.
C10_Witness ==
    /\ pc = "done"
    /\ Resolved
    /\ Len(imgs_iter) \in {0, 3}
    /\ \A k \in Positions : ~Decodes(k)
    /\ Saved
    /\ out_file.pages = <<>>
    /\ exit_code = 0

====
